---------------------------- MODULE Spec2Model ----------------------------
(***************************************************************************)
(* A model of the layers of the BiDAF reading-comprehension architecture   *)
(* (SubmissionFiles/code/QA_char_word_embed/layers.py): the constructors   *)
(* of the layers, RNNEncoder.forward (sort, pack, recur, unpack, unsort,   *)
(* dropout), BiDAFAttention.forward, BiDAFOutput.forward and               *)
(* EmbeddingChar.forward.                                                  *)
(*                                                                         *)
(* Tensors are records [shape, val]: shape is the tuple of dimensions and  *)
(* val maps every index tuple of that shape to the entry.  Probabilities   *)
(* are exact rationals <<n, d>>.  Each forward call is one action.         *)
(***************************************************************************)
EXTENDS Integers, Sequences, FiniteSets, TLC

VARIABLES layer,   \* which layer the behaviour exercises
          pc,      \* "idle", "done" (the call returned) or "error" (it raised)
          self,    \* the module object: its attributes and parameters
          args,    \* the arguments of the forward call
          ret,     \* what the call returned (and the locals the claims name)
          calls,   \* number of forward calls made on the module
          first    \* the output of the first inference-mode call, or None

vars == <<layer, pc, self, args, ret, calls, first>>

None == <<>>

\* ------------------------------------------------------------------ bounds
MaxBatch == 3
MaxLen == 2
MaxCalls == 2
NumMasks == 2

\* ----------------------------------------------------------------- helpers
RECURSIVE SumOver(_, _)
SumOver(S, f) ==
    IF S = {} THEN 0
    ELSE LET x == CHOOSE y \in S : TRUE IN f[x] + SumOver(S \ {x}, f)

Perms(n) == { p \in [1..n -> 1..n] : \A i, j \in 1..n : i # j => p[i] # p[j] }

\* x[idx]: advanced indexing of the batch axis by an index tensor
Gather(x, idx) == [k \in 1..Len(idx) |-> x[idx[k]]]

\* ============================================================= RNNEncoder
\* lengths.sort(0, descending=True): the sorted values and the indices; the
\* sort is not stable, so any index order that sorts the lengths may come out
SortDescending(lengths) ==
    { p \in Perms(Len(lengths)) :
        \A i, j \in 1..Len(lengths) : i < j => lengths[p[i]] >= lengths[p[j]] }

\* sort_idx.sort(0): the indices of an ascending sort of distinct values: the
\* k-th index is that of the entry with k-1 smaller ones
ArgsortAscendingSwapped(idx) == idx
ArgsortAscending(idx) ==
    [k \in 1..Len(idx) |->
        CHOOSE j \in 1..Len(idx) : Cardinality({m \in 1..Len(idx) : idx[m] < idx[j]}) = k - 1]

\* pack_padded_sequence(x, lengths, batch_first=True): the time-major packed
\* data (step t holds the entries of the sequences longer than t-1) and the
\* batch size of every step; lengths must be sorted and positive
PackNoLengths(x, lengths) ==
    LET T == Len(x[1]) IN
    [ data |-> [t \in 1..T |-> [i \in 1..Len(x) |-> x[i][t]]],
      batch_sizes |-> [t \in 1..T |-> Len(x)] ]
pack_padded_sequence(x, lengths) ==
    LET T == lengths[1]
        bs == [t \in 1..T |-> Cardinality({i \in 1..Len(x) : lengths[i] >= t})]
    IN [ data |-> [t \in 1..T |-> [i \in 1..bs[t] |-> x[i][t]]],
         batch_sizes |-> bs ]

\* the recurrent cells of the two directions; w stands for the weights
CellF(w, h, v) == w * h + v + 1
CellB(w, h, v) == (w + 1) * h + v + 1

\* length of sequence i as the packed batch sizes give it
PackedLen(bs, i) == Cardinality({t \in 1..Len(bs) : bs[t] >= i})

RECURSIVE HFwd(_, _, _, _)
HFwd(w, p, t, i) ==
    IF t = 0 THEN 0 ELSE CellF(w, HFwd(w, p, t - 1, i), p.data[t][i])

RECURSIVE HBwd(_, _, _, _)
HBwd(w, p, t, i) ==
    IF t > PackedLen(p.batch_sizes, i) THEN 0
    ELSE CellB(w, HBwd(w, p, t + 1, i), p.data[t][i])

\* self.rnn(x) on a packed sequence, bidirectional, initial state zero: every
\* sequence is run over its own steps only; the output is packed like the input
rnn(w, p) ==
    [ data |-> [t \in 1..Len(p.data) |->
                  [i \in 1..p.batch_sizes[t] |-> <<HFwd(w, p, t, i), HBwd(w, p, t, i)>>]],
      batch_sizes |-> p.batch_sizes ]

Zero2 == <<0, 0>>

\* pad_packed_sequence(x, batch_first=True, total_length=orig_len)
pad_packed_sequence(p, total_length) ==
    LET B == IF Len(p.batch_sizes) = 0 THEN 0 ELSE p.batch_sizes[1] IN
    [i \in 1..B |-> [t \in 1..total_length |->
        IF t <= Len(p.batch_sizes) /\ i <= p.batch_sizes[t] THEN p.data[t][i] ELSE Zero2]]

\* F.dropout(x, p, training): the identity unless training; p is in tenths
DropoutAlways(training, p) == p > 0
DropoutActive(training, p) == training /\ p > 0

\* the random masks F.dropout may draw; it draws none when it is not active
Seeds(training, p) == IF DropoutActive(training, p) THEN 0..NumMasks ELSE {0}

Keep(seed, i, t, k) == seed = 0 \/ (seed + i + t + k) % 2 = 0

F_dropout(x, p, training, seed) ==
    IF ~DropoutActive(training, p) THEN x
    ELSE [i \in 1..Len(x) |-> [t \in 1..Len(x[i]) |-> [k \in 1..Len(x[i][t]) |->
            IF Keep(seed, i, t, k) /\ p < 10 THEN (x[i][t][k] * 10) \div (10 - p) ELSE 0]]]

\* RNNEncoder.forward up to the un-sort, for one outcome sort_idx of the sort
EncodeSorted(w, x, lengths, sort_idx) ==
    LET orig_len == Len(x[1])
        slen == Gather(lengths, sort_idx)
        xs == Gather(x, sort_idx)
        packed == pack_padded_sequence(xs, slen)
        y == rnn(w, packed)
        padded == pad_packed_sequence(y, orig_len)
        unsort_idx == ArgsortAscending(sort_idx)
    IN Gather(padded, unsort_idx)

\* the end of RNNEncoder.forward: the output before and after the dropout
RNNEncoder_forward(m, enc, seed) ==
    [enc |-> enc, out |-> F_dropout(enc, m.drop_prob, m.training, seed)]

\* --------------------------------------------------- the encoder's inputs
Values == {0, 1}
DropProbs == {0, 5}

\* row i of a batch: its real positions alternate, starting from bit + i, and
\* its padding positions hold padval
Example(i, len, bit, padval) ==
    [t \in 1..MaxLen |-> IF t <= len THEN (bit + i + t) % 2 ELSE padval]

EncInputs ==
    UNION { { [x |-> [i \in 1..B |-> Example(i, lens[i], bit, padval)], lengths |-> lens] :
                lens \in [1..B -> 0..MaxLen], bit \in Values, padval \in Values }
            : B \in 1..MaxBatch }

InitEnc ==
    /\ layer = "RNNEncoder"
    /\ pc = "idle"
    /\ self \in [training : {TRUE}, drop_prob : DropProbs, w : {2}]
    /\ args \in EncInputs
    /\ ret = None
    /\ calls = 0
    /\ first = None

\* a forward call that returns
EncForward ==
    /\ layer = "RNNEncoder"
    /\ pc \in {"idle", "done"}
    /\ calls < MaxCalls
    /\ \A i \in 1..Len(args.lengths) : args.lengths[i] > 0
    /\ \E sort_idx \in SortDescending(args.lengths) :
         LET enc == EncodeSorted(self.w, args.x, args.lengths, sort_idx) IN
         \E seed \in Seeds(self.training, self.drop_prob) :
            /\ ret' = RNNEncoder_forward(self, enc, seed)
            /\ first' = IF first = None /\ ~self.training THEN ret'.out ELSE first
    /\ pc' = "done"
    /\ calls' = calls + 1
    /\ UNCHANGED <<layer, self, args>>

\* pack_padded_sequence raises on a length that is not positive
EncForwardRaises ==
    /\ layer = "RNNEncoder"
    /\ pc \in {"idle", "done"}
    /\ calls < MaxCalls
    /\ \E i \in 1..Len(args.lengths) : args.lengths[i] <= 0
    /\ pc' = "error"
    /\ calls' = calls + 1
    /\ UNCHANGED <<layer, self, args, ret, first>>

\* module.train() / module.eval() between calls
SetTraining ==
    /\ layer = "RNNEncoder"
    /\ pc \in {"idle", "done"}
    /\ self' = [self EXCEPT !.training = ~self.training]
    /\ UNCHANGED <<layer, pc, args, ret, calls, first>>

NextEnc == EncForward \/ EncForwardRaises \/ SetTraining

SpecEnc == InitEnc /\ [][NextEnc]_vars

\* ------------------------------------------------- the encoder's claims
\* encoding one example on its own, without sorting or packing: the forward
\* state at t has read positions 1..t, the backward state positions n..t
RECURSIVE AloneFwd(_, _, _)
AloneFwd(w, seq, t) == IF t = 0 THEN 0 ELSE CellF(w, AloneFwd(w, seq, t - 1), seq[t])

RECURSIVE AloneBwd(_, _, _)
AloneBwd(w, seq, t) == IF t > Len(seq) THEN 0 ELSE CellB(w, AloneBwd(w, seq, t + 1), seq[t])

EncodeAlone(w, row, n, L) ==
    LET seq == SubSeq(row, 1, n) IN
    [t \in 1..L |-> IF t <= n THEN <<AloneFwd(w, seq, t), AloneBwd(w, seq, t)>> ELSE Zero2]

Returned == layer = "RNNEncoder" /\ pc = "done"

\* C1: RNNEncoder.forward is order-invariant: whatever the order of the batch
\* and the outcome of the sort, row i of the output before dropout is the
\* encoding of input row i on its own
C1_OrderInvariant ==
    Returned =>
        \A i \in 1..Len(args.x) :
            ret.enc[i] = EncodeAlone(self.w, args.x[i], args.lengths[i], Len(args.x[i]))

\* a batch of three with two equal lengths, given in an order the sort must
\* change by a permutation that is not its own inverse
C1_Witness ==
    /\ Returned
    /\ Len(args.x) = 3
    /\ args.lengths = <<1, 2, 2>>
    /\ args.x[2] # args.x[3]

\* the input with the padding positions of every row overwritten by v
Repad(x, lengths, v) ==
    [i \in 1..Len(x) |-> [t \in 1..Len(x[i]) |-> IF t <= lengths[i] THEN x[i][t] ELSE v]]

\* C2: the output has exactly L positions for every example, is zero at the
\* padding positions n+1..L, and at the real positions 1..n is the same
\* whatever values the padding positions of the input hold
C2_PaddingIgnored ==
    Returned =>
        /\ \A i \in 1..Len(args.x) :
              /\ Len(ret.enc[i]) = Len(args.x[i])
              /\ \A t \in (args.lengths[i] + 1)..Len(args.x[i]) : ret.enc[i][t] = Zero2
        /\ \A v \in Values, s \in SortDescending(args.lengths) :
              LET other == EncodeSorted(self.w, Repad(args.x, args.lengths, v), args.lengths, s)
              IN \A i \in 1..Len(args.x) : \A t \in 1..args.lengths[i] :
                    other[i][t] = ret.enc[i][t]

\* an example shorter than the padded length whose padding is not zero, in a
\* batch with a longer example
C2_Witness ==
    /\ Returned
    /\ \E i, j \in 1..Len(args.x) :
         /\ args.lengths[i] < Len(args.x[i])
         /\ args.x[i][Len(args.x[i])] = 1
         /\ args.lengths[j] > args.lengths[i]

Recognized == {"LSTM", "RNN", "GRU", "URNN", "GORU"}
TorchRnn == {"LSTM", "RNN", "GRU"}
RnnTypes == Recognized \cup {"lstm", "SRU"}
DropClasses == {"Embedding", "EmbeddingChar", "Embedding_Char", "BiDAFAttention", "BiDAFOutput"}

\* drop_prob in tenths; [0, 1) is 0..9
CtorDropProbs == {-1, 0, 5, 9, 10, 11, 15}
InRange(p) == 0 <= p /\ p < 10

\* nn.LSTM / nn.RNN / nn.GRU refuse a dropout outside [0, 1]
TorchRnnRefuses(dropout) == ~(0 <= dropout /\ dropout <= 10)

\* F.dropout refuses a p outside [0, 1], in training and in inference mode
F_dropout_refuses(p) == p < 0 \/ p > 10

CtorArgs ==
    [cls : {"RNNEncoder"}, rnn_type : RnnTypes, num_layers : 1..2, drop_prob : CtorDropProbs]
    \cup [cls : DropClasses, rnn_type : {"LSTM"}, num_layers : {1}, drop_prob : CtorDropProbs]

InitCtor ==
    /\ layer = "ctor"
    /\ pc = "new"
    /\ args \in CtorArgs
    /\ self = None
    /\ ret = None
    /\ calls = 0
    /\ first = None

\* RNNEncoder.__init__: the if/elif chain over rnn_type has no else branch
RNNEncoder_init(a) ==
    LET dropout == IF a.num_layers > 1 THEN a.drop_prob ELSE 0 IN
    IF a.rnn_type \in TorchRnn /\ TorchRnnRefuses(dropout)
    THEN [raised |-> TRUE, obj |-> None]
    ELSE [raised |-> FALSE,
          obj |-> [drop_prob |-> a.drop_prob, has_rnn |-> a.rnn_type \in Recognized]]

\* Embedding, EmbeddingChar, Embedding_Char, BiDAFAttention: drop_prob is stored
\* as given; BiDAFOutput hands it to a one-layer LSTM RNNEncoder
Module_init(a) ==
    IF a.cls = "RNNEncoder" THEN RNNEncoder_init(a)
    ELSE IF a.cls = "BiDAFOutput"
         THEN RNNEncoder_init([a EXCEPT !.rnn_type = "LSTM", !.num_layers = 1])
         ELSE [raised |-> FALSE, obj |-> [drop_prob |-> a.drop_prob, has_rnn |-> TRUE]]

Construct ==
    /\ layer = "ctor"
    /\ pc = "new"
    /\ LET r == Module_init(args) IN
         \/ /\ r.raised
            /\ pc' = "ctor_error"
            /\ self' = None
         \/ /\ ~r.raised
            /\ pc' = "constructed"
            /\ self' = r.obj
    /\ UNCHANGED <<layer, args, ret, calls, first>>

\* the first forward call on well-formed tensors: self.rnn is read before
\* F.dropout is reached; every forward reaches an F.dropout with drop_prob
FirstForward ==
    /\ layer = "ctor"
    /\ pc = "constructed"
    /\ \/ /\ ~self.has_rnn \/ F_dropout_refuses(self.drop_prob)
          /\ pc' = "error"
       \/ /\ self.has_rnn /\ ~F_dropout_refuses(self.drop_prob)
          /\ pc' = "done"
    /\ calls' = calls + 1
    /\ UNCHANGED <<layer, self, args, ret, first>>

NextCtor == Construct \/ FirstForward

SpecCtor == InitCtor /\ [][NextCtor]_vars

\* C3: an RNNEncoder with an unrecognized rnn_type fails at construction: the
\* constructor raises and no encoder is returned on which forward is callable
C3_UnknownRnnTypeRejected ==
    (layer = "ctor" /\ args.cls = "RNNEncoder" /\ args.rnn_type \notin Recognized /\ pc # "new")
        => pc = "ctor_error"

\* C4: every component that takes drop_prob rejects a drop_prob outside [0, 1)
\* in its constructor, so no forward call is the first place where it raises
C4_DropProbRejected ==
    (layer = "ctor" /\ ~InRange(args.drop_prob) /\ pc # "new") => pc = "ctor_error"

\* ================================================================ tensors
\* the index tuples of a tensor of the given shape
RECURSIVE Idx(_)
Idx(shape) ==
    IF Len(shape) = 0 THEN {<<>>}
    ELSE { Append(p, k) : p \in Idx(SubSeq(shape, 1, Len(shape) - 1)),
                          k \in 1..shape[Len(shape)] }

\* exact rationals <<n, d>>, d > 0, in lowest terms
RECURSIVE GCD(_, _)
GCD(a, b) == IF b = 0 THEN a ELSE GCD(b, a % b)

Abs(n) == IF n < 0 THEN -n ELSE n
R(n) == <<n, 1>>
RNorm(n, d) == LET g == GCD(Abs(n), d) IN <<n \div g, d \div g>>
RAdd(x, y) ==
    LET l == (x[2] \div GCD(x[2], y[2])) * y[2]
    IN RNorm(x[1] * (l \div x[2]) + y[1] * (l \div y[2]), l)
RMul(x, y) == RNorm(x[1] * y[1], x[2] * y[2])

RECURSIVE RSum(_, _)
RSum(S, f) ==
    IF S = {} THEN R(0)
    ELSE LET x == CHOOSE y \in S : TRUE IN RAdd(f[x], RSum(S \ {x}, f))

RECURSIVE Exp2(_)
Exp2(z) == IF z = 0 THEN 1 ELSE 2 * Exp2(z - 1)

SetMin(S) == CHOOSE m \in S : \A y \in S : m <= y
Max(a, b) == IF a >= b THEN a ELSE b

\* torch broadcasting of two shapes, aligned at the last axis
DimAt(shape, n, k) == IF k > n - Len(shape) THEN shape[k - (n - Len(shape))] ELSE 1
BroadcastShape(s1, s2) ==
    LET n == Max(Len(s1), Len(s2)) IN
    [k \in 1..n |-> Max(DimAt(s1, n, k), DimAt(s2, n, k))]
\* the entry of an operand of shape `shape` that index idx of the result reads
BIdx(idx, shape) ==
    [k \in 1..Len(shape) |-> IF shape[k] = 1 THEN 1 ELSE idx[k + Len(idx) - Len(shape)]]

\* x.view(shape) of a contiguous tensor: the entries in row-major order
RECURSIVE Offset(_, _)
Offset(idx, shape) ==
    IF Len(shape) = 0 THEN 0
    ELSE Offset(SubSeq(idx, 1, Len(idx) - 1), SubSeq(shape, 1, Len(shape) - 1))
            * shape[Len(shape)] + (idx[Len(idx)] - 1)
View(t, shape) ==
    [shape |-> shape,
     val |-> [idx \in Idx(shape) |->
                t.val[CHOOSE j \in Idx(t.shape) : Offset(j, t.shape) = Offset(idx, shape)]]]

\* x.squeeze(): every axis of size 1 is removed
Squeeze(t) ==
    LET keep == SelectSeq([k \in 1..Len(t.shape) |-> k], LAMBDA k : t.shape[k] # 1)
    IN [shape |-> [k \in 1..Len(keep) |-> t.shape[keep[k]]],
        val |-> [idx \in Idx([k \in 1..Len(keep) |-> t.shape[keep[k]]]) |->
                   t.val[[k \in 1..Len(t.shape) |->
                            IF t.shape[k] = 1 THEN 1
                            ELSE idx[CHOOSE j \in 1..Len(keep) : keep[j] = k]]]]]

\* torch.bmm(x, y) of rational tensors (b, n, m) and (b, m, p)
Bmm(x, y) ==
    [shape |-> <<x.shape[1], x.shape[2], y.shape[3]>>,
     val |-> [idx \in Idx(<<x.shape[1], x.shape[2], y.shape[3]>>) |->
                RSum(1..x.shape[3],
                     [k \in 1..x.shape[3] |->
                        RMul(x.val[<<idx[1], idx[2], k>>], y.val[<<idx[1], k, idx[3]>>])])]]

\* x.transpose(1, 2)
Transpose12(x) ==
    [shape |-> <<x.shape[1], x.shape[3], x.shape[2]>>,
     val |-> [idx \in Idx(<<x.shape[1], x.shape[3], x.shape[2]>>) |->
                x.val[<<idx[1], idx[3], idx[2]>>]]]

\* x * y of rational tensors of one shape
Hadamard(x, y) ==
    [shape |-> x.shape, val |-> [idx \in Idx(x.shape) |-> RMul(x.val[idx], y.val[idx])]]

ToRational(x) == [shape |-> x.shape, val |-> [idx \in Idx(x.shape) |-> R(x.val[idx])]]

\* torch.cat(ts, dim=2) of rank-3 tensors that agree on the other axes
RECURSIVE WidthBefore(_, _)
WidthBefore(ts, n) == IF n = 0 THEN 0 ELSE WidthBefore(ts, n - 1) + ts[n].shape[3]
Cat2(ts) ==
    LET shp == <<ts[1].shape[1], ts[1].shape[2], WidthBefore(ts, Len(ts))>> IN
    [shape |-> shp,
     val |-> [idx \in Idx(shp) |->
                LET n == CHOOSE m \in 1..Len(ts) :
                            WidthBefore(ts, m - 1) < idx[3] /\ idx[3] <= WidthBefore(ts, m)
                IN ts[n].val[<<idx[1], idx[2], idx[3] - WidthBefore(ts, n - 1)>>]]]

\* util.masked_softmax(logits, mask, dim, log_softmax): softmax along dim over
\* the positions the mask marks valid.  The mask is broadcast against the
\* logits; a masked position gets exactly zero mass; a line with no valid
\* position is the zero vector.  With log_softmax the entries are the logs of
\* these probabilities, held as <<"log", p>>.
ZeroRow == R(0)
masked_softmax(logits, mask, dim, log_softmax) ==
    LET shp == BroadcastShape(logits.shape, mask.shape)
        d == IF dim < 0 THEN Len(shp) + 1 + dim ELSE dim + 1
        lg(idx) == logits.val[BIdx(idx, logits.shape)]
        mk(idx) == mask.val[BIdx(idx, mask.shape)]
        line(idx) == { [idx EXCEPT ![d] = k] : k \in 1..shp[d] }
        lo(idx) == SetMin({ lg(j) : j \in line(idx) })
        wgt(idx, base) == mk(idx) * Exp2(lg(idx) - base)
        prob(idx) ==
            LET base == lo(idx)
                total == SumOver(line(idx), [j \in line(idx) |-> wgt(j, base)])
            IN IF total = 0 THEN ZeroRow ELSE RNorm(wgt(idx, base), total)
    IN [shape |-> shp,
        val |-> [idx \in Idx(shp) |->
                   IF log_softmax THEN <<"log", prob(idx)>> ELSE prob(idx)]]

\* ========================================================= BiDAFAttention
MaxAttBatch == 2
MaxCLen == 5
MaxQLen == 2
MaxHidden == 4
MaxStep == 2

\* F.dropout on an integer tensor, with the mask that seed draws
F_dropoutT(x, p, training, seed) ==
    IF ~DropoutActive(training, p) THEN x
    ELSE [shape |-> x.shape,
          val |-> [idx \in Idx(x.shape) |->
                     IF Keep(seed, idx[1], idx[2], idx[3]) /\ p < 10
                     THEN (x.val[idx] * 10) \div (10 - p) ELSE 0]]

\* BiDAFAttention.get_similarity_matrix:
\* s[b,i,j] = c_i . c_weight + q_j . q_weight + (c_i * cq_weight) . q_j + bias
get_similarity_matrix(m, c, q, seed) ==
    LET cd == F_dropoutT(c, m.drop_prob, m.training, seed)
        qd == F_dropoutT(q, m.drop_prob, m.training, seed + 1)
        H == c.shape[3]
        shp == <<c.shape[1], c.shape[2], q.shape[2]>>
    IN [shape |-> shp,
        val |-> [idx \in Idx(shp) |->
                   SumOver(1..H, [h \in 1..H |->
                        cd.val[<<idx[1], idx[2], h>>] * m.c_weight[h]
                      + qd.val[<<idx[1], idx[3], h>>] * m.q_weight[h]
                      + cd.val[<<idx[1], idx[2], h>>] * m.cq_weight[h]
                          * qd.val[<<idx[1], idx[3], h>>]])
                   + m.bias]]

\* s1 = masked_softmax(s, q_mask, dim=2) with q_mask viewed as (batch, 1, q_len)
AttS1OverContext(s, q_mask) ==
    masked_softmax(s, View(q_mask, <<s.shape[1], 1, s.shape[3]>>), 1, FALSE)
AttS1(s, q_mask) ==
    masked_softmax(s, View(q_mask, <<s.shape[1], 1, s.shape[3]>>), 2, FALSE)

\* s2 = masked_softmax(s, c_mask, dim=1) with c_mask viewed as (batch, c_len, 1)
AttS2Unmasked(s, c_mask) ==
    masked_softmax(s, [shape |-> <<1, 1, 1>>, val |-> [idx \in Idx(<<1, 1, 1>>) |-> 1]], 1, FALSE)
AttS2(s, c_mask) ==
    masked_softmax(s, View(c_mask, <<s.shape[1], s.shape[2], 1>>), 1, FALSE)

\* x = torch.cat([c, a, c * a, c * b], dim=2)
AttFuseSwapped(c, a, b) == Cat2(<<c, a, Hadamard(c, b), Hadamard(c, a)>>)
AttFuse(c, a, b) == Cat2(<<c, a, Hadamard(c, a), Hadamard(c, b)>>)

BiDAFAttention_forward(m, c, q, c_mask, q_mask, seed) ==
    LET s == get_similarity_matrix(m, c, q, seed)
        s1 == AttS1(s, q_mask)
        s2 == AttS2(s, c_mask)
        cr == ToRational(c)
        a == Bmm(s1, ToRational(q))
        b == Bmm(Bmm(s1, Transpose12(s2)), cr)
    IN [s1 |-> s1, s2 |-> s2, x |-> AttFuse(cr, a, b)]

\* ------------------------------------------------ the attention's inputs
\* a mask row with n valid positions, as the 0/1 tensor the softmax multiplies
MaskOf(lens, L) ==
    [shape |-> <<Len(lens), L>>,
     val |-> [idx \in Idx(<<Len(lens), L>>) |-> IF idx[2] <= lens[idx[1]] THEN 1 ELSE 0]]

AttInputs ==
    { [c |-> [shape |-> <<B, Lc, H>>,
              val |-> [idx \in Idx(<<B, Lc, H>>) |-> (v + idx[1] + idx[2] * idx[3]) % 2]],
       q |-> [shape |-> <<B, Lq, H>>,
              val |-> [idx \in Idx(<<B, Lq, H>>) |-> (v + idx[1] + idx[2] + idx[3]) % 2]],
       c_mask |-> MaskOf([b \in 1..B |-> Max(0, Lc - ck * (B - b))], Lc),
       q_mask |-> MaskOf([b \in 1..B |-> Max(0, Lq - qk * (B - b))], Lq)] :
      B \in 1..MaxAttBatch, Lc \in 1..MaxCLen, Lq \in 1..MaxQLen, H \in {1, MaxHidden},
      v \in Values, ck \in 0..MaxStep, qk \in 0..MaxStep }

\* the parameters: c_weight and q_weight read feature 1, cq_weight the last
AttModule(H) ==
    [training : BOOLEAN, drop_prob : DropProbs,
     c_weight : {[h \in 1..H |-> IF h = 1 THEN 1 ELSE 0]},
     q_weight : {[h \in 1..H |-> IF h = 1 THEN 1 ELSE 0]},
     cq_weight : {[h \in 1..H |-> IF h = H THEN 1 ELSE 0]},
     bias : {-1}]

InitAtt ==
    /\ layer = "BiDAFAttention"
    /\ pc = "idle"
    /\ args \in AttInputs
    /\ self \in AttModule(args.c.shape[3])
    /\ ret = None
    /\ calls = 0
    /\ first = None

AttForward ==
    /\ layer = "BiDAFAttention"
    /\ pc = "idle"
    /\ \E seed \in Seeds(self.training, self.drop_prob) :
         ret' = BiDAFAttention_forward(self, args.c, args.q, args.c_mask, args.q_mask, seed)
    /\ pc' = "done"
    /\ calls' = calls + 1
    /\ UNCHANGED <<layer, self, args, first>>

NextAtt == AttForward

SpecAtt == InitAtt /\ [][NextAtt]_vars

\* ----------------------------------------------- the attention's claims
AttReturned == layer = "BiDAFAttention" /\ pc = "done"

\* a[b,i,h] = sum_j s1[b,i,j] q[b,j,h], entry by entry
AttA(b, i, h) ==
    RSum(1..args.q.shape[2],
         [j \in 1..args.q.shape[2] |->
            RMul(ret.s1.val[<<b, i, j>>], R(args.q.val[<<b, j, h>>]))])

\* b[b,i,h] = sum_k (sum_j s1[b,i,j] s2[b,k,j]) c[b,k,h], entry by entry
AttB(b, i, h) ==
    RSum(1..args.c.shape[2],
         [k \in 1..args.c.shape[2] |->
            RMul(RSum(1..args.q.shape[2],
                      [j \in 1..args.q.shape[2] |->
                         RMul(ret.s1.val[<<b, i, j>>], ret.s2.val[<<b, k, j>>])]),
                 R(args.c.val[<<b, k, h>>]))])

\* C5: the output of BiDAFAttention.forward has shape (batch, Lc, 4H) and its
\* feature axis holds, in this order, context, a, context*a and context*b,
\* with a = s1 x query and b = s1 x transpose(s2) x context
C5_FusionLayout ==
    AttReturned =>
        LET B == args.c.shape[1]
            Lc == args.c.shape[2]
            H == args.c.shape[3]
        IN /\ ret.x.shape = <<B, Lc, 4 * H>>
           /\ DOMAIN ret.x.val = Idx(<<B, Lc, 4 * H>>)
           /\ \A b \in 1..B, i \in 1..Lc, h \in 1..H :
                LET cv == R(args.c.val[<<b, i, h>>]) IN
                /\ ret.x.val[<<b, i, h>>] = cv
                /\ ret.x.val[<<b, i, H + h>>] = AttA(b, i, h)
                /\ ret.x.val[<<b, i, 2 * H + h>>] = RMul(cv, AttA(b, i, h))
                /\ ret.x.val[<<b, i, 3 * H + h>>] = RMul(cv, AttB(b, i, h))

\* the scenario of the specification: batch 2, context lengths [3, 5] padded
\* to 5, query lengths [2, 2], hidden size 4, output of shape (2, 5, 16)
C5_Witness ==
    /\ AttReturned
    /\ args.c.shape = <<2, 5, 4>>
    /\ args.q.shape = <<2, 2, 4>>
    /\ args.c_mask = MaskOf(<<3, 5>>, 5)
    /\ args.q_mask = MaskOf(<<2, 2>>, 2)
    /\ ret.x.shape = <<2, 5, 16>>
    /\ \E i \in 1..5, h \in 1..4 : ret.x.val[<<1, i, 8 + h>>] # ret.x.val[<<1, i, 12 + h>>]

ValidQ(b) == { j \in 1..args.q_mask.shape[2] : args.q_mask.val[<<b, j>>] = 1 }
ValidC(b) == { i \in 1..args.c_mask.shape[2] : args.c_mask.val[<<b, i>>] = 1 }

\* s1 of example b is a distribution over the real query positions
S1Normalized(b) ==
    \A i \in 1..args.c.shape[2] :
        /\ \A j \in 1..args.q.shape[2] : j \notin ValidQ(b) => ret.s1.val[<<b, i, j>>] = R(0)
        /\ RSum(ValidQ(b), [j \in ValidQ(b) |-> ret.s1.val[<<b, i, j>>]]) = R(1)

\* s2 of example b is a distribution over the real context positions
S2Normalized(b) ==
    \A j \in 1..args.q.shape[2] :
        /\ \A i \in 1..args.c.shape[2] : i \notin ValidC(b) => ret.s2.val[<<b, i, j>>] = R(0)
        /\ RSum(ValidC(b), [i \in ValidC(b) |-> ret.s2.val[<<b, i, j>>]]) = R(1)

\* C6 as stated: for every example, s1 gives zero weight to the padded query
\* positions and sums to 1 over the real ones, for every context position,
\* and s2 likewise over the context axis, for every query position
C6_AsStated ==
    AttReturned => \A b \in 1..args.c.shape[1] : S1Normalized(b) /\ S2Normalized(b)

\* C6 amended: the same for every example that has a real query position
\* (s1) and for every example that has a real context position (s2)
C6_MaskedNormalization ==
    AttReturned =>
        \A b \in 1..args.c.shape[1] :
            /\ ValidQ(b) # {} => S1Normalized(b)
            /\ ValidC(b) # {} => S2Normalized(b)

\* an example with padded and real positions on both axes and a weight that
\* is neither 0 nor 1
C6_Witness ==
    /\ AttReturned
    /\ \E b \in 1..args.c.shape[1] :
         /\ ValidQ(b) # {} /\ ValidQ(b) # 1..args.q.shape[2]
         /\ ValidC(b) # {} /\ ValidC(b) # 1..args.c.shape[2]
         /\ \E i \in ValidC(b), j \in ValidQ(b) : ret.s2.val[<<b, i, j>>] \notin {R(0), R(1)}

\* ============================================================ BiDAFOutput
MaxOutBatch == 2
MaxOutLen == 3

\* nn.Linear(n, 1): (batch, seq_len, n) -> (batch, seq_len, 1)
Linear1(x, w) ==
    [shape |-> <<x.shape[1], x.shape[2], 1>>,
     val |-> [idx \in Idx(<<x.shape[1], x.shape[2], 1>>) |->
                SumOver(1..x.shape[3],
                        [k \in 1..x.shape[3] |-> x.val[<<idx[1], idx[2], k>>] * w[k]])]]

\* x + y of integer tensors of one shape
AddT(x, y) == [shape |-> x.shape, val |-> [idx \in Idx(x.shape) |-> x.val[idx] + y.val[idx]]]

\* mask.sum(-1): the number of valid positions of every example
MaskSum(mask) ==
    [b \in 1..mask.shape[1] |->
        SumOver(1..mask.shape[2], [t \in 1..mask.shape[2] |-> mask.val[<<b, t>>]])]

\* the rows the recurrent cell of self.rnn reads: its input weights add the
\* features of a position
RnnRows(mod) ==
    [b \in 1..mod.shape[1] |-> [t \in 1..mod.shape[2] |->
        SumOver(1..mod.shape[3], [k \in 1..mod.shape[3] |-> mod.val[<<b, t, k>>]])]]

\* the encoder's output (batch, seq_len, 2 * hidden_size) as a tensor
AsTensor(rows) ==
    [shape |-> <<Len(rows), Len(rows[1]), 2>>,
     val |-> [idx \in Idx(<<Len(rows), Len(rows[1]), 2>>) |-> rows[idx[1]][idx[2]][idx[3]]]]

\* logits.squeeze() as the first argument of masked_softmax
SqueezeLogits(t) == Squeeze(t)

\* BiDAFOutput.forward, given what self.rnn returned for mod
BiDAFOutput_forward(m, att, mod, mask, mod_2) ==
    LET logits_1 == AddT(Linear1(att, m.att_linear_1), Linear1(mod, m.mod_linear_1))
        logits_2 == AddT(Linear1(att, m.att_linear_2), Linear1(mod_2, m.mod_linear_2))
    IN [log_p1 |-> masked_softmax(SqueezeLogits(logits_1), mask, -1, TRUE),
        log_p2 |-> masked_softmax(SqueezeLogits(logits_2), mask, -1, TRUE)]

OutInputs ==
    { [att |-> [shape |-> <<B, L, 8>>,
                val |-> [idx \in Idx(<<B, L, 8>>) |-> (v + idx[1] + idx[2] + idx[3]) % 2]],
       mod |-> [shape |-> <<B, L, 2>>,
                val |-> [idx \in Idx(<<B, L, 2>>) |-> (v + idx[1] * idx[2] + idx[3]) % 2]],
       mask |-> MaskOf([b \in 1..B |-> Max(0, L - k * (B - b))], L)] :
      B \in 1..MaxOutBatch, L \in 1..MaxOutLen, v \in Values, k \in 0..MaxStep }

\* hidden_size 1: the linear layers read 8 and 2 features
OutModule ==
    [training : BOOLEAN, drop_prob : DropProbs, w : {1},
     att_linear_1 : {[k \in 1..8 |-> IF k = 1 THEN 1 ELSE 0]},
     mod_linear_1 : {<<1, 1>>},
     att_linear_2 : {[k \in 1..8 |-> IF k = 2 THEN 1 ELSE 0]},
     mod_linear_2 : {<<1, 0>>}]

InitOut ==
    /\ layer = "BiDAFOutput"
    /\ pc = "idle"
    /\ args \in OutInputs
    /\ self \in OutModule
    /\ ret = None
    /\ calls = 0
    /\ first = None

\* a forward call that returns: self.rnn packs mod by the mask sums
OutForward ==
    /\ layer = "BiDAFOutput"
    /\ pc = "idle"
    /\ LET lengths == MaskSum(args.mask) IN
         /\ \A b \in 1..Len(lengths) : lengths[b] > 0
         /\ \E sort_idx \in SortDescending(lengths) :
              LET enc == EncodeSorted(self.w, RnnRows(args.mod), lengths, sort_idx) IN
              \E seed \in Seeds(self.training, self.drop_prob) :
                 ret' = BiDAFOutput_forward(self, args.att, args.mod, args.mask,
                                            AsTensor(RNNEncoder_forward(self, enc, seed).out))
    /\ pc' = "done"
    /\ calls' = calls + 1
    /\ UNCHANGED <<layer, self, args, first>>

\* an all-padding mask row sums to length 0, on which self.rnn raises before
\* any masked softmax is called
OutForwardRaises ==
    /\ layer = "BiDAFOutput"
    /\ pc = "idle"
    /\ \E b \in 1..args.mask.shape[1] : MaskSum(args.mask)[b] <= 0
    /\ pc' = "error"
    /\ calls' = calls + 1
    /\ UNCHANGED <<layer, self, args, ret, first>>

NextOut == OutForward \/ OutForwardRaises

SpecOut == InitOut /\ [][NextOut]_vars

\* attention and output layer together
SpecAttOut == (InitAtt \/ InitOut) /\ [][NextAtt \/ NextOut]_vars

\* ------------------------------------------------ the output layer's claims
OutReturned == layer = "BiDAFOutput" /\ pc = "done"

\* lp is a (batch, context_len) tensor of log-probabilities, each row a
\* distribution over the context positions of its own example
LogDistribution(lp) ==
    /\ lp.shape = args.mask.shape
    /\ DOMAIN lp.val = Idx(args.mask.shape)
    /\ \A b \in 1..args.mask.shape[1] :
         RSum(1..args.mask.shape[2],
              [t \in 1..args.mask.shape[2] |-> lp.val[<<b, t>>][2]]) = R(1)

\* C8: BiDAFOutput.forward returns two log-probability tensors of shape
\* (batch, context_len), each normalized over the context axis of its own
\* example, for every batch size and context length >= 1
C8_OutputShape ==
    OutReturned => LogDistribution(ret.log_p1) /\ LogDistribution(ret.log_p2)

\* ------------------------------------------------- all-padding mask rows
AllPadding(mask, b) == \A t \in 1..mask.shape[2] : mask.val[<<b, t>>] = 0

\* no entry is NaN or Inf: every entry is a rational with a positive denominator
Finite(t) == \A idx \in DOMAIN t.val : t.val[idx][2] > 0

\* what the attention layer gets from masked softmax for all-padding rows
AttDegenerateRowsZero ==
    AttReturned =>
        /\ Finite(ret.s1) /\ Finite(ret.s2) /\ Finite(ret.x)
        /\ \A b \in 1..args.c.shape[1] :
             /\ AllPadding(args.q_mask, b) =>
                  \A i \in 1..args.c.shape[2], j \in 1..args.q.shape[2] :
                      ret.s1.val[<<b, i, j>>] = ZeroRow
             /\ AllPadding(args.c_mask, b) =>
                  \A i \in 1..args.c.shape[2], j \in 1..args.q.shape[2] :
                      ret.s2.val[<<b, i, j>>] = ZeroRow

OutCalledWithAllPadding ==
    /\ layer = "BiDAFOutput"
    /\ pc # "idle"
    /\ \E b \in 1..args.mask.shape[1] : AllPadding(args.mask, b)

MaxEmbDim == 2
KernelSize == 5

\* shapes only: the claims about this layer are about shapes and errors
RECURSIVE Numel(_)
Numel(shape) ==
    IF Len(shape) = 0 THEN 1
    ELSE Numel(SubSeq(shape, 1, Len(shape) - 1)) * shape[Len(shape)]

Raised == [ok |-> FALSE, shape |-> <<>>]
Ok(shape) == [ok |-> TRUE, shape |-> shape]

\* _, seq_len, max_word_len = x_char.size(): unpacking raises unless the
\* tensor has exactly three axes
SizeUnpackLastTwo(shape) ==
    [ok |-> Len(shape) >= 2,
     seq_len |-> IF Len(shape) >= 2 THEN shape[Len(shape) - 1] ELSE 0,
     max_word_len |-> IF Len(shape) >= 2 THEN shape[Len(shape)] ELSE 0]
SizeUnpack(shape) ==
    [ok |-> Len(shape) = 3,
     seq_len |-> IF Len(shape) = 3 THEN shape[2] ELSE 0,
     max_word_len |-> IF Len(shape) = 3 THEN shape[3] ELSE 0]

\* x.view(-1, rest...): the first axis is inferred; raises when it cannot be
ViewInfer(shape, rest) ==
    IF Numel(shape) % Numel(rest) = 0
    THEN Ok(<<Numel(shape) \div Numel(rest)>> \o rest)
    ELSE Raised

\* CNN.forward on (b, char_emb_size, max_word_len): nn.Conv1d with kernel k
\* raises when the input is shorter than the kernel; relu and the max over
\* the last axis leave (b, f)
CNN_forward(shape, f, k) ==
    IF shape[3] < k THEN Raised
    ELSE LET conv == <<shape[1], f, shape[3] - k + 1>> IN Ok(<<conv[1], conv[2]>>)

\* torch.cat((x, y), 2): the tensors must agree on every other axis
CatShape2(x, y) ==
    IF Len(x) = 3 /\ Len(y) = 3 /\ x[1] = y[1] /\ x[2] = y[2]
    THEN Ok(<<x[1], x[2], x[3] + y[3]>>)
    ELSE Raised

\* EmbeddingChar.forward and Embedding_Char.forward (the same statements)
EmbeddingChar_forward(m, x_word, x_char) ==
    LET size == SizeUnpack(x_char) IN
    IF ~size.ok THEN Raised
    ELSE
    LET flat == ViewInfer(x_char, <<size.max_word_len>>) IN
    IF ~flat.ok THEN Raised
    ELSE
    LET emb_char == <<flat.shape[1], flat.shape[2], m.char_emb_size>>
        transposed == <<emb_char[1], emb_char[3], emb_char[2]>>
        pooled == CNN_forward(transposed, m.word_emb_size, KernelSize)
    IN
    IF ~pooled.ok THEN Raised
    ELSE
    LET words == ViewInfer(pooled.shape, <<size.seq_len, m.word_emb_size>>) IN
    IF ~words.ok THEN Raised
    ELSE
    LET emb_word == x_word \o <<m.word_emb_size>>
        emb == CatShape2(emb_word, words.shape)
    IN
    IF ~emb.ok THEN Raised
    ELSE \* dropout keeps the shape, proj maps the last axis to hidden_size, hwy keeps the shape
         Ok(<<emb.shape[1], emb.shape[2], m.hidden_size>>)

\* tensors of rank n with leading axes in 1..MaxEmbDim and the last in `last`
RECURSIVE ShapesOf(_, _)
ShapesOf(n, last) ==
    IF n = 1 THEN { <<w>> : w \in last }
    ELSE { <<d>> \o sh : d \in 1..MaxEmbDim, sh \in ShapesOf(n - 1, last) }

EmbInputs ==
    [x_word : ShapesOf(2, 1..MaxEmbDim),
     x_char : UNION { ShapesOf(n, (KernelSize - 1)..(KernelSize + 1)) : n \in 1..4 }]

InitEmb ==
    /\ layer = "EmbeddingChar"
    /\ pc = "idle"
    /\ args \in EmbInputs
    /\ self \in [cls : {"EmbeddingChar", "Embedding_Char"}, word_emb_size : {2},
                 char_emb_size : {1}, hidden_size : {3}]
    /\ ret = None
    /\ calls = 0
    /\ first = None

EmbForward ==
    /\ layer = "EmbeddingChar"
    /\ pc = "idle"
    /\ LET r == EmbeddingChar_forward(self, args.x_word, args.x_char) IN
         \/ /\ r.ok
            /\ pc' = "done"
            /\ ret' = r.shape
         \/ /\ ~r.ok
            /\ pc' = "error"
            /\ ret' = None
    /\ calls' = calls + 1
    /\ UNCHANGED <<layer, self, args, first>>

NextEmb == EmbForward

SpecEmb == InitEmb /\ [][NextEmb]_vars

LeadingMatches ==
    Len(args.x_char) = 3 /\ <<args.x_char[1], args.x_char[2]>> = args.x_word

\* C10: a character tensor whose rank is not 3, or whose (batch, seq_len)
\* differs from the word tensor's, makes forward raise before any output; a
\* matching (batch, seq_len, max_word_len) tensor with max_word_len >= 5
\* gives an output of shape (batch, seq_len, hidden_size)
C10_CharShapeChecked ==
    (layer = "EmbeddingChar" /\ pc # "idle") =>
        /\ ~LeadingMatches => pc = "error" /\ ret = None
        /\ (LeadingMatches /\ args.x_char[3] >= KernelSize) =>
              pc = "done" /\ ret = <<args.x_word[1], args.x_word[2], self.hidden_size>>

\* a rank-3 character tensor with as many words as the word tensor, split
\* differently into batch and seq_len, and long enough for the kernel: raised
C10_Witness ==
    /\ layer = "EmbeddingChar"
    /\ pc = "error"
    /\ Len(args.x_char) = 3
    /\ args.x_char[3] > KernelSize
    /\ args.x_char[1] * args.x_char[2] = args.x_word[1] * args.x_word[2]
    /\ args.x_char[1] # args.x_word[1]

=============================================================================
